---- MODULE Spec2Model ----
(***************************************************************************)
(* Sifter (src/research/sifter.py): the scoring server, its output file    *)
(* and the browser client, as state machines.                              *)
(*                                                                         *)
(* Python values are tagged records, JSON text is a sequence of            *)
(* characters, a dict (and a JSON object) is a function from keys.         *)
(* API indices are 0-based as in the code; TLA+ sequences are 1-based, so  *)
(* pairs[idx] of the code is pairs[idx + 1] here.                          *)
(***************************************************************************)
EXTENDS Integers, Sequences, FiniteSets, TLC

\* ------------------------------------------------------------------ bounds

\* Largest number of records in input.jsonl (server specifications).
MaxPairs == 2

\* Largest number of records when the Dataset Store is used alone.
MaxLen == 3

\* Threadpool workers that run the server's handlers in parallel.
Workers == 2

\* Largest number of overlapping set_score calls followed as one batch.
MaxBatch == 2

\* Largest number of records when the page is followed under fairness.
MaxFair == 1

\* ------------------------------------------------------------ Python values

None_ == [t |-> "NoneType", n |-> 0, s |-> <<>>]
PyInt(k) == [t |-> "int", n |-> k, s |-> <<>>]
PyBool(b) == [t |-> "bool", n |-> IF b THEN 1 ELSE 0, s |-> <<>>]
\* A float with one decimal: n is the value in tenths (1.0 is PyFloat(10)).
PyFloat(tenths) == [t |-> "float", n |-> tenths, s |-> <<>>]
PyStr(chars) == [t |-> "str", n |-> 0, s |-> chars]

IsNumber(x) == x.t \in {"int", "bool", "float"}
Tenths(x) == IF x.t = "float" THEN x.n ELSE 10 * x.n

\* Python's ==, which `in` applies to a tuple's members: numbers (bool is a
\* number) compare by value, anything else by type and content.
PyEq(x, y) ==
    IF IsNumber(x) /\ IsNumber(y) THEN Tenths(x) = Tenths(y) ELSE x = y

\* d.get(k): the value, or None when the key is missing.
DictGet(d, k) == IF k \in DOMAIN d THEN d[k] ELSE None_

\* {**d1, **d2}: the keys of both, d2 winning.
DictMerge(d1, d2) ==
    [k \in (DOMAIN d1) \cup (DOMAIN d2) |-> IF k \in DOMAIN d2 THEN d2[k] ELSE d1[k]]

\* ------------------------------------------------------------------- JSON

DigitChars == <<"0", "1", "2", "3", "4", "5", "6", "7", "8", "9">>

RECURSIVE Digits(_)
Digits(k) ==
    IF k < 10 THEN <<DigitChars[k + 1]>>
    ELSE Digits(k \div 10) \o <<DigitChars[(k % 10) + 1]>>

DigitVal(c) == CHOOSE d \in 0..9 : DigitChars[d + 1] = c

RECURSIVE ParseDigits(_)
ParseDigits(txt) ==
    IF txt = <<>> THEN 0
    ELSE 10 * ParseDigits(SubSeq(txt, 1, Len(txt) - 1)) + DigitVal(txt[Len(txt)])

NullText == <<"n", "u", "l", "l">>
TrueText == <<"t", "r", "u", "e">>
FalseText == <<"f", "a", "l", "s", "e">>

\* json.dumps of one value.
JsonDumps(v) ==
    CASE v.t = "NoneType" -> NullText
      [] v.t = "bool" -> (IF v.n = 1 THEN TrueText ELSE FalseText)
      [] v.t = "int" -> (IF v.n < 0 THEN <<"-">> \o Digits(0 - v.n) ELSE Digits(v.n))
      [] v.t = "float" -> Digits(v.n \div 10) \o <<".">> \o Digits(v.n % 10)
      [] v.t = "str" -> <<"\"">> \o v.s \o <<"\"">>

DotAt(txt) == CHOOSE i \in 1..Len(txt) : txt[i] = "."

\* json.loads of one value's text.
JsonLoads(txt) ==
    CASE txt = NullText -> None_
      [] txt = TrueText -> PyBool(TRUE)
      [] txt = FalseText -> PyBool(FALSE)
      [] txt # NullText /\ txt # TrueText /\ txt # FalseText /\ txt[1] = "\"" ->
            PyStr(SubSeq(txt, 2, Len(txt) - 1))
      [] OTHER ->
            IF \E i \in 1..Len(txt) : txt[i] = "."
            THEN PyFloat(10 * ParseDigits(SubSeq(txt, 1, DotAt(txt) - 1))
                         + ParseDigits(SubSeq(txt, DotAt(txt) + 1, Len(txt))))
            ELSE IF txt[1] = "-"
                 THEN PyInt(0 - ParseDigits(Tail(txt)))
                 ELSE PyInt(ParseDigits(txt))

\* A line of a .jsonl file: a JSON object (key -> text of the value), a blank
\* line, or a torn line (bytes that are no complete JSON document).
JsonLine(d) == [kind |-> "json", obj |-> [k \in DOMAIN d |-> JsonDumps(d[k])]]
BlankLine == [kind |-> "blank", obj |-> <<>>]
TornLine == [kind |-> "torn", obj |-> <<>>]

\* json.loads(line) of an object line.
LoadsLine(line) == [k \in DOMAIN line.obj |-> JsonLoads(line.obj[k])]

\* ------------------------------------------------------------------ state

VARIABLES
    inFile,     \* jobs/<job>/input.jsonl: a sequence of lines
    pairs,      \* the server's global `pairs`
    scores,     \* the server's global `scores`
    outFile,    \* jobs/<job>/output.jsonl: [exists, lines]
    resp,       \* the last request the server answered, with its response
                \* and the number of flush_output calls it made
    acked,      \* history: per index, the value of the last submission answered 200
    call,       \* the Dataset Store used alone: [phase, given, ok]
    proc,       \* the server process: "running", or "failed" when startup raised
    thr,        \* per threadpool worker, the set_score call it is running
    base,       \* history: scores when the calls in progress began
    batch,      \* history: the calls accepted since then, [idx, val]
    IDX,        \* the page's IDX
    TOTAL,      \* the page's TOTAL
    BUSY,       \* the page's BUSY
    active,     \* the score button carrying the class "active" (0: none)
    shown,      \* the index of the record the specimens show (-1: none)
    boot,       \* the promise chain of the page's init block: [pc, f]
    ops,        \* the render() and score() calls that have not finished
    last        \* history: the kind of the page's or its server's last step

srvVars == <<inFile, pairs, scores, outFile>>
apiVars == <<resp, acked>>

\* What the requests of Spec leave alone.
pageVars == <<IDX, TOTAL, BUSY, active, shown, boot, ops, last>>
parVars == <<proc, thr, base, batch>>
specFrame == <<call, parVars, pageVars>>
vars == <<srvVars, apiVars, call, parVars, pageVars>>

NoFile == [exists |-> FALSE, lines |-> <<>>]

\* ---------------------------------------------------------- Dataset Store

\* One record of input.jsonl, in the shape experiments/001-all-chars.py writes
\* ({"a", "b", "font"}); the font is optional for the server (p.get("font")).
SamplePair(i) ==
    IF i % 2 = 1
    THEN [a |-> PyStr(<<"a">>), b |-> PyStr(<<DigitChars[(i % 10) + 1]>>),
          font |-> PyStr(<<"R", "o", "b", "o", "t", "o">>)]
    ELSE [a |-> PyStr(<<"a">>), b |-> PyStr(<<DigitChars[(i % 10) + 1]>>)]

\* input.jsonl with n records and, when 1 <= blankAt <= n, a blank line
\* after record blankAt (load_input skips it).
InputFile(n, blankAt) ==
    LET recs == [i \in 1..n |-> JsonLine(SamplePair(i))]
    IN  IF blankAt \in 1..n
        THEN SubSeq(recs, 1, blankAt) \o <<BlankLine>> \o SubSeq(recs, blankAt + 1, n)
        ELSE recs

InputFiles == {InputFile(n, 0) : n \in 0..MaxPairs} \cup {InputFile(1, 1)}

RECURSIVE LoadLines(_)
\* [json.loads(line) for line in f if line.strip()]
LoadLines(lines) ==
    IF lines = <<>> THEN <<>>
    ELSE IF Head(lines).kind = "blank" THEN LoadLines(Tail(lines))
         ELSE <<LoadsLine(Head(lines))>> \o LoadLines(Tail(lines))

\* Mutant of load_input: one score per line of the file, blank or not.
load_input_score_per_line(file) ==
    [pairs |-> LoadLines(file), scores |-> [i \in 1..Len(file) |-> None_]]

\* load_input: the new values of the globals pairs and scores.
load_input(file) ==
    LET ps == LoadLines(file)
    IN  [pairs |-> ps, scores |-> [i \in 1..Len(ps) |-> None_]]

RECURSIVE ResumeFrom(_, _, _)
\* The loop of load_existing_output from line i (0-based) on: json.loads
\* raises on a line that is no JSON document, and the process dies.
ResumeFrom(lines, sc, i) ==
    IF i >= Len(lines) \/ i >= Len(sc) THEN [ok |-> TRUE, scores |-> sc]
    ELSE IF lines[i + 1].kind # "json" THEN [ok |-> FALSE, scores |-> sc]
         ELSE ResumeFrom(lines,
                         [sc EXCEPT ![i + 1] = DictGet(LoadsLine(lines[i + 1]), "score")],
                         i + 1)

\* Mutant of load_existing_output: no `break` at len(scores), so a longer
\* file raises IndexError.
load_existing_output_no_break(file, sc) ==
    IF ~file.exists THEN [ok |-> TRUE, scores |-> sc]
    ELSE IF Len(file.lines) > Len(sc) THEN [ok |-> FALSE, scores |-> sc]
         ELSE ResumeFrom(file.lines, sc, 0)

\* load_existing_output: ok is FALSE when it raised.
load_existing_output(file, sc) ==
    IF ~file.exists THEN [ok |-> TRUE, scores |-> sc]
    ELSE ResumeFrom(file.lines, sc, 0)

Min(x, y) == IF x <= y THEN x ELSE y

\* The line flush_output writes for position i (1-based) of zip(pairs, scores).
OutputLine(ps, sc, i) == JsonLine(DictMerge(ps[i], [score |-> sc[i]]))

RECURSIVE ScoredLines(_, _, _)
ScoredLines(ps, sc, i) ==
    IF i > Min(Len(ps), Len(sc)) THEN <<>>
    ELSE (IF sc[i].t = "NoneType" THEN <<>> ELSE <<OutputLine(ps, sc, i)>>)
             \o ScoredLines(ps, sc, i + 1)

\* Mutant of flush_output: a record without a score writes no line.
flush_output_scored_only(ps, sc) == [exists |-> TRUE, lines |-> ScoredLines(ps, sc, 1)]

\* flush_output: open(path, "w") and one line per zip(pairs, scores).
flush_output(ps, sc) ==
    [exists |-> TRUE,
     lines |-> [i \in 1..Min(Len(ps), Len(sc)) |-> OutputLine(ps, sc, i)]]

\* -------------------------------------------------------- Scoring Service

OutOfRangeBody ==
    [error |-> PyStr(<<"o", "u", "t", " ", "o", "f", " ", "r", "a", "n", "g", "e">>)]
BadScoreBody ==
    [error |-> PyStr(<<"s", "c", "o", "r", "e", " ", "m", "u", "s", "t", " ",
                       "b", "e", " ", "1", "-", "5">>)]
OkBody == [ok |-> PyBool(TRUE)]

RECURSIVE CountScored(_)
\* sum(1 for s in scores if s is not None)
CountScored(sc) ==
    IF sc = <<>> THEN 0
    ELSE (IF Head(sc).t # "NoneType" THEN 1 ELSE 0) + CountScored(Tail(sc))

\* GET /api/status
status(ps, sc) ==
    [code |-> 200, body |-> [total |-> PyInt(Len(ps)), scored |-> PyInt(CountScored(sc))]]

\* Mutant of get_pair: the lower bound is not tested, and Python's pairs[-1]
\* is the last record.
get_pair_no_lower_bound(ps, sc, idx) ==
    IF idx >= Len(ps) \/ Len(ps) = 0
    THEN [code |-> 404, body |-> OutOfRangeBody]
    ELSE [code |-> 200,
          body |-> DictMerge(DictMerge([index |-> PyInt(idx)], ps[(idx % Len(ps)) + 1]),
                             [score |-> sc[(idx % Len(ps)) + 1]])]

\* GET /api/pair/{idx}
get_pair(ps, sc, idx) ==
    IF idx < 0 \/ idx >= Len(ps)
    THEN [code |-> 404, body |-> OutOfRangeBody]
    ELSE [code |-> 200,
          body |-> DictMerge(DictMerge([index |-> PyInt(idx)], ps[idx + 1]),
                             [score |-> sc[idx + 1]])]

RECURSIVE FirstNoneFrom(_, _)
FirstNoneFrom(sc, i) ==
    IF i >= Len(sc) THEN 0
    ELSE IF sc[i + 1].t = "NoneType" THEN i ELSE FirstNoneFrom(sc, i + 1)

\* Mutant of first_unscored: falls back to len(scores) when nothing is unscored.
first_unscored_past_end(sc) ==
    [code |-> 200,
     body |-> [index |-> PyInt(IF \A i \in 1..Len(sc) : sc[i].t # "NoneType"
                               THEN Len(sc) ELSE FirstNoneFrom(sc, 0))]]

\* GET /api/first-unscored
first_unscored(sc) == [code |-> 200, body |-> [index |-> PyInt(FirstNoneFrom(sc, 0))]]

\* s not in (1, 2, 3, 4, 5) is FALSE
InOneToFive(s) == \E k \in 1..5 : PyEq(s, PyInt(k))

\* Mutant of check_and_assign: the value is stored before it is validated.
check_and_assign_store_first(ps, sc, idx, body) ==
    IF idx < 0 \/ idx >= Len(ps)
    THEN [code |-> 404, body |-> OutOfRangeBody, scores |-> sc]
    ELSE IF ~InOneToFive(DictGet(body, "score"))
         THEN [code |-> 400, body |-> BadScoreBody,
               scores |-> [sc EXCEPT ![idx + 1] = DictGet(body, "score")]]
         ELSE [code |-> 200, body |-> OkBody,
               scores |-> [sc EXCEPT ![idx + 1] = DictGet(body, "score")]]

\* POST /api/pair/{idx}/score without the flush: the response, and the new
\* scores (lines 120-125).
check_and_assign(ps, sc, idx, body) ==
    IF idx < 0 \/ idx >= Len(ps)
    THEN [code |-> 404, body |-> OutOfRangeBody, scores |-> sc]
    ELSE IF ~InOneToFive(DictGet(body, "score"))
         THEN [code |-> 400, body |-> BadScoreBody, scores |-> sc]
         ELSE [code |-> 200, body |-> OkBody,
               scores |-> [sc EXCEPT ![idx + 1] = DictGet(body, "score")]]

\* Mutant of set_score: the file is flushed before scores[idx] is assigned.
set_score_flush_first(ps, sc, out, idx, body) ==
    LET r == check_and_assign(ps, sc, idx, body)
    IN  [code |-> r.code, body |-> r.body, scores |-> r.scores,
         out |-> IF r.code = 200 THEN flush_output(ps, sc) ELSE out,
         flushes |-> IF r.code = 200 THEN 1 ELSE 0]

\* Mutant of set_score: the flush is skipped when the value does not change.
set_score_skip_unchanged(ps, sc, out, idx, body) ==
    LET r == check_and_assign(ps, sc, idx, body)
        write == r.code = 200 /\ r.scores # sc
    IN  [code |-> r.code, body |-> r.body, scores |-> r.scores,
         out |-> IF write THEN flush_output(ps, r.scores) ELSE out,
         flushes |-> IF write THEN 1 ELSE 0]

\* Mutant of set_score: the file is flushed whatever the checks said.
set_score_flush_always(ps, sc, out, idx, body) ==
    LET r == check_and_assign(ps, sc, idx, body)
    IN  [code |-> r.code, body |-> r.body, scores |-> r.scores,
         out |-> flush_output(ps, r.scores), flushes |-> 1]

\* POST /api/pair/{idx}/score handled alone from start to end: the response,
\* the new scores, the new output file and the number of flush_output calls
\* made (line 126 is reached on the 200 path only, and then always).
set_score(ps, sc, out, idx, body) ==
    LET r == check_and_assign(ps, sc, idx, body)
    IN  [code |-> r.code, body |-> r.body, scores |-> r.scores,
         out |-> IF r.code = 200 THEN flush_output(ps, r.scores) ELSE out,
         flushes |-> IF r.code = 200 THEN 1 ELSE 0]

\* ----------------------------------------------- requests, one at a time

\* The values a request body may carry under "score".
TriedValues ==
    {None_, PyBool(TRUE), PyFloat(10), PyStr(<<"3">>)}
        \cup {PyInt(k) : k \in 0..6}

\* A request body: a JSON object with or without a "score" key.
Bodies == {[note |-> None_]} \cup {[score |-> v] : v \in TriedValues}

\* The indices a request may name: every valid one, -1 and len(pairs).
Indices == -1..Len(pairs)

NoArg == [note |-> None_]

StartupResp(ok) ==
    [op |-> "startup", idx |-> 0, arg |-> NoArg, flushes |-> 0,
     code |-> IF ok THEN 0 ELSE 1, body |-> NoArg]

InitServer ==
    /\ inFile \in InputFiles
    /\ pairs = load_input(inFile).pairs
    /\ outFile = NoFile
    /\ scores = load_existing_output(outFile, load_input(inFile).scores).scores

NoCall == [phase |-> "none", given |-> <<>>, ok |-> TRUE]

\* A fetch() that was sent, and one the server has answered.
Sent == [st |-> "sent", code |-> 0, body |-> NoArg]
Answered(r) == [st |-> "answered", code |-> r.code, body |-> r.body]
NoFetch == [st |-> "none", code |-> 0, body |-> NoArg]

\* No page is open.
NoPage ==
    /\ IDX = 0
    /\ TOTAL = 0
    /\ BUSY = FALSE
    /\ active = 0
    /\ shown = -1
    /\ boot = [pc |-> "none", f |-> NoFetch]
    /\ ops = <<>>
    /\ last = "none"

\* A threadpool worker with no request.
IdleWorker == [pc |-> "idle", idx |-> 0, val |-> None_, iter |-> 0, buf |-> <<>>, off |-> 0]

InitWorkers ==
    /\ proc = "running"
    /\ thr = [t \in 1..Workers |-> IdleWorker]
    /\ base = scores
    /\ batch = <<>>

Init ==
    /\ InitServer
    /\ resp = StartupResp(TRUE)
    /\ acked = [i \in 1..Len(pairs) |-> None_]
    /\ call = NoCall
    /\ InitWorkers
    /\ NoPage

GetStatus ==
    /\ resp' = [op |-> "status", idx |-> 0, arg |-> NoArg, flushes |-> 0] @@ status(pairs, scores)
    /\ UNCHANGED <<srvVars, acked, specFrame>>

GetPair(idx) ==
    /\ resp' = [op |-> "get_pair", idx |-> idx, arg |-> NoArg, flushes |-> 0] @@ get_pair(pairs, scores, idx)
    /\ UNCHANGED <<srvVars, acked, specFrame>>

FirstUnscored ==
    /\ resp' = [op |-> "first_unscored", idx |-> 0, arg |-> NoArg, flushes |-> 0] @@ first_unscored(scores)
    /\ UNCHANGED <<srvVars, acked, specFrame>>

SetScore(idx, body) ==
    LET r == set_score(pairs, scores, outFile, idx, body)
    IN  /\ scores' = r.scores
        /\ outFile' = r.out
        /\ resp' = [op |-> "set_score", idx |-> idx, arg |-> body,
                    flushes |-> r.flushes, code |-> r.code, body |-> r.body]
        /\ acked' = IF r.code = 200
                    THEN [acked EXCEPT ![idx + 1] = DictGet(body, "score")]
                    ELSE acked
        /\ UNCHANGED <<inFile, pairs, specFrame>>

\* The process ends between two requests and is started again on the same
\* job: the __main__ block's load_input and load_existing_output.
Restart ==
    LET loaded == load_input(inFile)
        resumed == load_existing_output(outFile, loaded.scores)
    IN  /\ resumed.ok
        /\ pairs' = loaded.pairs
        /\ scores' = resumed.scores
        /\ resp' = StartupResp(TRUE)
        /\ UNCHANGED <<inFile, outFile, acked, specFrame>>

Next ==
    \/ GetStatus
    \/ \E idx \in Indices : GetPair(idx)
    \/ FirstUnscored
    \/ \E idx \in Indices, body \in Bodies : SetScore(idx, body)
    \/ Restart


Spec == Init /\ [][Next]_vars

\* ------------------------------------- the Dataset Store used alone

\* A previous session's output.jsonl, one line longer than any dataset here.
StaleFile ==
    flush_output([i \in 1..(MaxLen + 1) |-> SamplePair(i)],
                 [i \in 1..(MaxLen + 1) |-> PyInt(1 + (i % 5))])

\* Any records, any scores over {None, 1, ..., 5} of the same length, and an
\* output file that is absent or left by a previous session.
InitRoundTrip ==
    /\ \E n \in 0..MaxLen :
        /\ inFile = InputFile(n, 0)
        /\ pairs = [i \in 1..n |-> SamplePair(i)]
        /\ scores \in [1..n -> {None_} \cup {PyInt(k) : k \in 1..5}]
    /\ outFile \in {NoFile, StaleFile}
    /\ call = [phase |-> "given", given |-> scores, ok |-> TRUE]
    /\ resp = StartupResp(TRUE)
    /\ acked = <<>>
    /\ InitWorkers
    /\ NoPage

\* persist(output, Records, Scores): flush_output.
Persist ==
    /\ call.phase = "given"
    /\ outFile' = flush_output(pairs, scores)
    /\ call' = [call EXCEPT !.phase = "persisted"]
    /\ UNCHANGED <<inFile, pairs, scores, apiVars, parVars, pageVars>>

\* resume(output, Records): a new process runs load_input and
\* load_existing_output.
Resume ==
    LET loaded == load_input(inFile)
        resumed == load_existing_output(outFile, loaded.scores)
    IN  /\ call.phase = "persisted"
        /\ pairs' = loaded.pairs
        /\ scores' = resumed.scores
        /\ call' = [call EXCEPT !.phase = "resumed", !.ok = resumed.ok]
        /\ UNCHANGED <<inFile, outFile, apiVars, parVars, pageVars>>

NextRoundTrip ==
    \/ Persist
    \/ Resume

SpecRoundTrip == InitRoundTrip /\ [][NextRoundTrip]_vars

\* The output files a job directory may hold when a process starts: none,
\* the file a session over k records flushed with scores `given`, or k
\* records without a "score" key (a copy of the input).
LeftFiles ==
    {[file |-> NoFile, given |-> <<>>]}
        \cup UNION {{[file |-> flush_output([i \in 1..k |-> SamplePair(i)], sc), given |-> sc] :
                        sc \in [1..k -> {None_, PyInt(2), PyInt(5)}]} : k \in 0..(MaxLen + 1)}
        \cup {[file |-> [exists |-> TRUE, lines |-> InputFile(k, 0)],
               given |-> [i \in 1..k |-> None_]] : k \in 1..(MaxLen + 1)}

\* A process is about to start on n records and any such output file.
InitResume ==
    /\ \E n \in 0..MaxLen : inFile = InputFile(n, 0)
    /\ pairs = <<>>
    /\ scores = <<>>
    /\ \E left \in LeftFiles :
          /\ outFile = left.file
          /\ call = [phase |-> "persisted", given |-> left.given, ok |-> TRUE]
    /\ resp = StartupResp(TRUE)
    /\ acked = <<>>
    /\ InitWorkers
    /\ NoPage

SpecResume == InitResume /\ [][Resume]_vars

\* ------------------------- set_score on parallel workers, and interruptions
\* FastAPI runs a `def` handler on a threadpool, so two set_score calls can
\* run at once. A worker's steps are the handler's: the checks and the
\* assignment (lines 120-125), open(path, "w") (line 51), one f.write per
\* record into the file object's buffer (lines 52-53), the buffer's flushes,
\* and the close that ends the `with` block before the return (line 127).
\* File offsets are counted in lines.

Max(x, y) == IF x >= y THEN x ELSE y

\* The file after `buf` is written at offset `off` of an open file: what lies
\* beyond the written range stays, a gap before it is filled with NUL bytes.
WriteAt(file, off, buf) ==
    [exists |-> TRUE,
     lines |-> [j \in 1..Max(Len(file.lines), off + Len(buf)) |->
                   IF j > off /\ j <= off + Len(buf) THEN buf[j - off]
                   ELSE IF j <= Len(file.lines) THEN file.lines[j]
                   ELSE TornLine]]

\* The bodies posted in parallel.
ParallelBodies == {[score |-> PyInt(k)] : k \in {1, 2, 6}}

Quiescent == \A t \in 1..Workers : thr[t].pc = "idle"

\* Lines 120-125 on worker t.
Begin(t, idx, body) ==
    LET r == check_and_assign(pairs, scores, idx, body)
    IN  /\ proc = "running"
        /\ thr[t].pc = "idle"
        /\ Quiescent \/ Len(batch) < MaxBatch
        /\ scores' = r.scores
        /\ IF r.code = 200
           THEN /\ thr' = [thr EXCEPT ![t] = [IdleWorker EXCEPT !.pc = "open", !.idx = idx,
                                                              !.val = DictGet(body, "score")]]
                /\ base' = IF Quiescent THEN scores ELSE base
                /\ batch' = (IF Quiescent THEN <<>> ELSE batch)
                                \o <<[idx |-> idx, val |-> DictGet(body, "score")]>>
                /\ acked' = [acked EXCEPT ![idx + 1] = None_]
                /\ UNCHANGED resp
           ELSE /\ resp' = [op |-> "set_score", idx |-> idx, arg |-> body,
                            flushes |-> 0, code |-> r.code, body |-> r.body]
                /\ UNCHANGED <<thr, base, batch, acked>>
        /\ UNCHANGED <<inFile, pairs, outFile, call, proc, pageVars>>

\* open(path, "w") on worker t: the file is created or cut to length 0.
Open(t) ==
    /\ proc = "running"
    /\ thr[t].pc = "open"
    /\ outFile' = [exists |-> TRUE, lines |-> <<>>]
    /\ thr' = [thr EXCEPT ![t].pc = "write"]
    /\ UNCHANGED <<inFile, pairs, scores, apiVars, call, proc, base, batch, pageVars>>

\* One turn of the loop on worker t: the next (pair, score) of zip(pairs,
\* scores), read now, is serialised into the buffer.
WriteLine(t) ==
    /\ proc = "running"
    /\ thr[t].pc = "write"
    /\ thr[t].iter < Min(Len(pairs), Len(scores))
    /\ thr' = [thr EXCEPT ![t].buf = Append(@, OutputLine(pairs, scores, thr[t].iter + 1)),
                          ![t].iter = @ + 1]
    /\ UNCHANGED <<srvVars, apiVars, call, proc, base, batch, pageVars>>

\* The buffer of worker t's file object is full and is written out (one line
\* here stands for a buffer's worth of a large dataset).
FlushBuffer(t) ==
    /\ proc = "running"
    /\ thr[t].pc = "write"
    /\ thr[t].buf # <<>>
    /\ thr[t].iter < Min(Len(pairs), Len(scores))
    /\ outFile' = WriteAt(outFile, thr[t].off, thr[t].buf)
    /\ thr' = [thr EXCEPT ![t].off = @ + Len(thr[t].buf), ![t].buf = <<>>]
    /\ UNCHANGED <<inFile, pairs, scores, apiVars, call, proc, base, batch, pageVars>>

\* The `with` block ends on worker t: what is left in the buffer is written,
\* the file is closed and the handler returns {"ok": True}.
Close(t) ==
    /\ proc = "running"
    /\ thr[t].pc = "write"
    /\ thr[t].iter = Min(Len(pairs), Len(scores))
    /\ outFile' = WriteAt(outFile, thr[t].off, thr[t].buf)
    /\ thr' = [thr EXCEPT ![t] = IdleWorker]
    /\ resp' = [op |-> "set_score", idx |-> thr[t].idx, arg |-> [score |-> thr[t].val],
                flushes |-> 1, code |-> 200, body |-> OkBody]
    /\ acked' = [acked EXCEPT ![thr[t].idx + 1] =
                    IF \E u \in 1..Workers : u # t /\ thr[u].pc # "idle" /\ thr[u].idx = thr[t].idx
                    THEN None_ ELSE thr[t].val]
    /\ UNCHANGED <<inFile, pairs, scores, call, proc, base, batch, pageVars>>

\* The body of the 500 that FastAPI sends when a handler raises.
ServerErrorBody == [detail |-> PyStr(<<"5", "0", "0">>)]

\* open(), a write or the closing flush raises OSError on worker t (the disk
\* is full, say): the `with` block is left, what the buffer held is lost,
\* output.jsonl stays as the call had it by then, and nothing undoes the
\* assignment of line 125. The client gets a 500.
WriteFails(t) ==
    /\ proc = "running"
    /\ thr[t].pc \in {"open", "write"}
    /\ thr' = [thr EXCEPT ![t] = IdleWorker]
    /\ resp' = [op |-> "set_score", idx |-> thr[t].idx, arg |-> [score |-> thr[t].val],
                flushes |-> 1, code |-> 500, body |-> ServerErrorBody]
    /\ UNCHANGED <<srvVars, acked, call, proc, base, batch, pageVars>>

\* The process is killed at any point and started again: what the workers
\* held in memory is gone, and __main__ loads the input and resumes from
\* whatever output.jsonl holds; json.loads raising ends the new process.
Crash ==
    LET loaded == load_input(inFile)
        resumed == load_existing_output(outFile, loaded.scores)
    IN  /\ proc = "running"
        /\ pairs' = loaded.pairs
        /\ scores' = resumed.scores
        /\ proc' = IF resumed.ok THEN "running" ELSE "failed"
        /\ thr' = [t \in 1..Workers |-> IdleWorker]
        /\ base' = resumed.scores
        /\ batch' = <<>>
        /\ resp' = StartupResp(resumed.ok)
        /\ UNCHANGED <<inFile, outFile, acked, call, pageVars>>

NextParallel ==
    \/ \E t \in 1..Workers, idx \in Indices, body \in ParallelBodies : Begin(t, idx, body)
    \/ \E t \in 1..Workers : Open(t)
    \/ \E t \in 1..Workers : WriteLine(t)
    \/ \E t \in 1..Workers : FlushBuffer(t)
    \/ \E t \in 1..Workers : Close(t)
    \/ Crash

SpecParallel == Init /\ [][NextParallel]_vars

\* The same server on a disk that may refuse a write.
NextDiskFull ==
    \/ \E t \in 1..Workers, idx \in Indices, body \in ParallelBodies : Begin(t, idx, body)
    \/ \E t \in 1..Workers : Open(t)
    \/ \E t \in 1..Workers : WriteLine(t)
    \/ \E t \in 1..Workers : FlushBuffer(t)
    \/ \E t \in 1..Workers : Close(t)
    \/ \E t \in 1..Workers : WriteFails(t)

SpecDiskFull == Init /\ [][NextDiskFull]_vars

\* ------------------------------------------- the page (lines 209-291)
\* One browser page against the server, which answers one request at a time
\* here. A fetch is sent when its call runs, answered when the server handles
\* it, and its continuation runs later; any fetch in flight may fail instead.

\* The keys 1-5 and the five buttons call score(n); these are pressed.
PressedKeys == {5}

\* What the page leaves alone.
pageFrame == <<inFile, pairs, apiVars, call, parVars>>

RenderOp(idx) ==
    [kind |-> "render", idx |-> idx, val |-> 0, stage |-> "fetch", f1 |-> Sent, f2 |-> Sent]
ScoreOp(idx, val) ==
    [kind |-> "score", idx |-> idx, val |-> val, stage |-> "post", f1 |-> Sent, f2 |-> NoFetch]

Remove(seq, i) == SubSeq(seq, 1, i - 1) \o SubSeq(seq, i + 1, Len(seq))

\* The n with Number(b.dataset.s) === v for a button, or 0: JSON has one
\* number type, so 1.0 is the number 1, and true is no number.
JsActive(v) ==
    IF v.t \in {"int", "float"} /\ Tenths(v) \in {10 * k : k \in 1..5}
    THEN Tenths(v) \div 10 ELSE 0

\* The scores an earlier session left: the first k of n records scored 2.
EarlierScores(n, k) == [i \in 1..n |-> IF i <= k THEN PyInt(2) ELSE None_]

\* The server was started on a job that an earlier session may have scored,
\* and the page is loaded: the init block sends its first fetch.
InitClient ==
    /\ inFile \in {InputFile(n, 0) : n \in 0..MaxPairs}
    /\ pairs = load_input(inFile).pairs
    /\ \E k \in 0..Len(pairs) :
          outFile = IF k = 0 THEN NoFile ELSE flush_output(pairs, EarlierScores(Len(pairs), k))
    /\ scores = load_existing_output(outFile, load_input(inFile).scores).scores
    /\ resp = StartupResp(TRUE)
    /\ acked = [i \in 1..Len(pairs) |-> None_]
    /\ call = NoCall
    /\ InitWorkers
    /\ IDX = 0
    /\ TOTAL = 0
    /\ BUSY = FALSE
    /\ active = 0
    /\ shown = -1
    /\ boot = [pc |-> "first", f |-> Sent]
    /\ ops = <<>>
    /\ last = "none"

\* The server answers the init block's fetch in flight.
BootServe ==
    /\ boot.f.st = "sent"
    /\ boot' = [boot EXCEPT !.f = IF boot.pc = "first"
                                  THEN Answered(first_unscored(scores))
                                  ELSE Answered(status(pairs, scores))]
    /\ last' = "served"
    /\ UNCHANGED <<scores, outFile, pageFrame, IDX, TOTAL, BUSY, active, shown, ops>>

\* Line 288: IDX = d.index; return fetch('/api/status').
BootIndex ==
    /\ boot.pc = "first"
    /\ boot.f.st = "answered"
    /\ IDX' = boot.f.body.index.n
    /\ boot' = [pc |-> "status", f |-> Sent]
    /\ last' = "boot"
    /\ UNCHANGED <<scores, outFile, pageFrame, TOTAL, BUSY, active, shown, ops>>

\* Line 290: TOTAL = d.total; render(), which sets BUSY and sends its fetches.
BootTotal ==
    /\ boot.pc = "status"
    /\ boot.f.st = "answered"
    /\ TOTAL' = boot.f.body.total.n
    /\ boot' = [pc |-> "done", f |-> NoFetch]
    /\ BUSY' = TRUE
    /\ ops' = Append(ops, RenderOp(IDX))
    /\ last' = "boot"
    /\ UNCHANGED <<scores, outFile, pageFrame, IDX, active, shown>>

\* A fetch of the init block fails: the chain is rejected, nothing handles it.
BootFails ==
    /\ boot.f.st \in {"sent", "answered"}
    /\ boot' = [pc |-> "failed", f |-> NoFetch]
    /\ last' = "boot"
    /\ UNCHANGED <<scores, outFile, pageFrame, IDX, TOTAL, BUSY, active, shown, ops>>

\* The server answers GET /api/pair/<idx> of render call i.
ServePair(i) ==
    /\ ops[i].kind = "render"
    /\ ops[i].f1.st = "sent"
    /\ ops' = [ops EXCEPT ![i].f1 = Answered(get_pair(pairs, scores, ops[i].idx))]
    /\ last' = "served"
    /\ UNCHANGED <<scores, outFile, pageFrame, IDX, TOTAL, BUSY, active, shown, boot>>

\* The server answers GET /api/status of call i.
ServeStatus(i) ==
    /\ ops[i].f2.st = "sent"
    /\ ops' = [ops EXCEPT ![i].f2 = Answered(status(pairs, scores))]
    /\ last' = "served"
    /\ UNCHANGED <<scores, outFile, pageFrame, IDX, TOTAL, BUSY, active, shown, boot>>

\* The server handles POST /api/pair/<idx>/score of score call i.
ServePost(i) ==
    LET r == set_score(pairs, scores, outFile, ops[i].idx, [score |-> PyInt(ops[i].val)])
    IN  /\ ops[i].kind = "score"
        /\ ops[i].f1.st = "sent"
        /\ scores' = r.scores
        /\ outFile' = r.out
        /\ ops' = [ops EXCEPT ![i].f1 = Answered(r)]
        /\ last' = "served"
        /\ UNCHANGED <<pageFrame, IDX, TOTAL, BUSY, active, shown, boot>>

\* Lines 227-239: both fetches of render call i are in.
RenderDone(i) ==
    /\ ops[i].kind = "render"
    /\ ops[i].f1.st = "answered"
    /\ ops[i].f2.st = "answered"
    /\ TOTAL' = ops[i].f2.body.total.n
    /\ shown' = IF ops[i].f1.code = 200 THEN ops[i].f1.body.index.n ELSE -1
    /\ active' = JsActive(DictGet(ops[i].f1.body, "score"))
    /\ BUSY' = FALSE
    /\ ops' = Remove(ops, i)
    /\ last' = "render"
    /\ UNCHANGED <<scores, outFile, pageFrame, IDX, boot>>

\* Lines 252-255: the POST of score call i resolved, with any status.
ScorePosted(i) ==
    /\ ops[i].kind = "score"
    /\ ops[i].stage = "post"
    /\ ops[i].f1.st = "answered"
    /\ active' = ops[i].val
    /\ ops' = [ops EXCEPT ![i].stage = "status", ![i].f2 = Sent]
    /\ last' = "posted"
    /\ UNCHANGED <<scores, outFile, pageFrame, IDX, TOTAL, BUSY, shown, boot>>

\* Lines 256-259: the status fetch of score call i is in.
ScoreDone(i) ==
    /\ ops[i].kind = "score"
    /\ ops[i].stage = "status"
    /\ ops[i].f2.st = "answered"
    /\ TOTAL' = ops[i].f2.body.total.n
    /\ BUSY' = FALSE
    /\ ops' = Remove(ops, i)
    /\ last' = "score"
    /\ UNCHANGED <<scores, outFile, pageFrame, IDX, active, shown, boot>>

\* Mutant of OpFails: no `finally { BUSY = false; }`.
OpFails_keeps_busy(i) ==
    /\ ops' = Remove(ops, i)
    /\ last' = "failed"
    /\ UNCHANGED <<scores, outFile, pageFrame, IDX, TOTAL, BUSY, active, shown, boot>>

\* A fetch of call i fails: the await throws and `finally` clears BUSY.
OpFails(i) ==
    /\ BUSY' = FALSE
    /\ ops' = Remove(ops, i)
    /\ last' = "failed"
    /\ UNCHANGED <<scores, outFile, pageFrame, IDX, TOTAL, active, shown, boot>>

\* What an input that is not taken leaves alone: all but the history.
inputFrame == <<scores, outFile, pageFrame, IDX, TOTAL, BUSY, active, shown, boot, ops>>

\* Mutant of PressScore: no `if (BUSY) return`.
PressScore_while_busy(val) ==
    /\ BUSY' = TRUE
    /\ ops' = Append(ops, ScoreOp(IDX, val))
    /\ last' = "press"
    /\ UNCHANGED <<scores, outFile, pageFrame, IDX, TOTAL, active, shown, boot>>

\* score(val), from a key or a button (lines 243-251).
PressScore(val) ==
    IF BUSY
    THEN /\ last' = "dropped"
         /\ UNCHANGED inputFrame
    ELSE /\ BUSY' = TRUE
         /\ ops' = Append(ops, ScoreOp(IDX, val))
         /\ last' = "press"
         /\ UNCHANGED <<scores, outFile, pageFrame, IDX, TOTAL, active, shown, boot>>

\* Mutant of Go: no test of the range.
Go_any_index(dir) ==
    IF BUSY
    THEN /\ last' = "dropped"
         /\ UNCHANGED inputFrame
    ELSE /\ IDX' = IDX + dir
         /\ BUSY' = TRUE
         /\ ops' = Append(ops, RenderOp(IDX + dir))
         /\ last' = "go"
         /\ UNCHANGED <<scores, outFile, pageFrame, TOTAL, active, shown, boot>>

\* go(dir), from an arrow key or an arrow (lines 263-269).
Go(dir) ==
    IF BUSY
    THEN /\ last' = "dropped"
         /\ UNCHANGED inputFrame
    ELSE IF IDX + dir < 0 \/ IDX + dir >= TOTAL
         THEN /\ last' = "rejected"
              /\ UNCHANGED inputFrame
         ELSE /\ IDX' = IDX + dir
              /\ BUSY' = TRUE
              /\ ops' = Append(ops, RenderOp(IDX + dir))
              /\ last' = "go"
              /\ UNCHANGED <<scores, outFile, pageFrame, TOTAL, active, shown, boot>>

NextClient ==
    \/ BootServe
    \/ BootIndex
    \/ BootTotal
    \/ BootFails
    \/ \E i \in 1..Len(ops) : ServePair(i)
    \/ \E i \in 1..Len(ops) : ServeStatus(i)
    \/ \E i \in 1..Len(ops) : ServePost(i)
    \/ \E i \in 1..Len(ops) : RenderDone(i)
    \/ \E i \in 1..Len(ops) : ScorePosted(i)
    \/ \E i \in 1..Len(ops) : ScoreDone(i)
    \/ \E i \in 1..Len(ops) : OpFails(i)
    \/ \E val \in PressedKeys : PressScore(val)
    \/ \E dir \in {-1, 1} : Go(dir)

SpecClient == InitClient /\ [][NextClient]_vars

\* A request in flight is answered, or a continuation that is ready runs.
Progress ==
    \/ BootServe
    \/ BootIndex
    \/ BootTotal
    \/ \E i \in 1..Len(ops) : ServePair(i)
    \/ \E i \in 1..Len(ops) : ServeStatus(i)
    \/ \E i \in 1..Len(ops) : ServePost(i)
    \/ \E i \in 1..Len(ops) : RenderDone(i)
    \/ \E i \in 1..Len(ops) : ScorePosted(i)
    \/ \E i \in 1..Len(ops) : ScoreDone(i)

\* Every request is answered unless it fails, and the event loop runs what
\* is ready: while something can proceed, something does. Inputs and
\* failures may or may not come.
ClientFairness == WF_vars(Progress)

\* The page is loaded on a job of at most MaxFair records, not scored yet.
InitClientFair ==
    /\ InitClient
    /\ Len(pairs) <= MaxFair
    /\ outFile = NoFile

SpecClientFair == InitClientFair /\ [][NextClient]_vars /\ ClientFairness

\* ------------------------------------------------- claims checked under Spec

OneToFive == {PyInt(k) : k \in 1..5}
ValidIndex(i) == 0 <= i /\ i < Len(pairs)

\* The text of the "score" field of line i (0-based) of output.jsonl.
FileHolds(i, txt) ==
    /\ outFile.exists
    /\ i < Len(outFile.lines)
    /\ outFile.lines[i + 1].kind = "json"
    /\ "score" \in DOMAIN outFile.lines[i + 1].obj
    /\ outFile.lines[i + 1].obj["score"] = txt

\* C1: once a submission of v in 1..5 to a valid index i was answered 200,
\* and until a later submission to i, getRecord(i).score is v and line i of
\* output.jsonl holds v, in the state of the response and in every later
\* state, a restart from the output file included.
C1_AckedScoreIsDurable ==
    \A i \in 0..(Len(pairs) - 1) :
        acked[i + 1] \in OneToFive =>
            /\ get_pair(pairs, scores, i).code = 200
            /\ get_pair(pairs, scores, i).body["score"] = acked[i + 1]
            /\ FileHolds(i, Digits(acked[i + 1].n))

\* C1's case: the process was restarted after index 0 was scored 4, and
\* index 1 was scored too.
C1_Witness ==
    /\ resp.op = "startup"
    /\ Len(pairs) = 2
    /\ acked[1] = PyInt(4)
    /\ acked[2] = PyInt(2)

\* C6: get_pair and set_score answer 404 "out of range" to every index
\* outside [0, len(pairs)), whatever the body, and the server goes on
\* answering.
C6_OutOfRangeIs404 ==
    (resp.op \in {"get_pair", "set_score"} /\ ~ValidIndex(resp.idx)) =>
        /\ resp.code = 404
        /\ resp.body = OutOfRangeBody
        /\ ENABLED GetStatus

\* C6's case: a well-formed score posted to index -1 of a non-empty dataset.
C6_Witness ==
    /\ resp.op = "set_score"
    /\ resp.idx = -1
    /\ resp.arg = [score |-> PyInt(3)]
    /\ Len(pairs) > 0
    /\ resp.code = 404

\* C7 (as claimed): a submission to a valid index is answered 200 exactly
\* when its "score" is one of the integers 1..5, and 400 otherwise.
C7_OnlyIntegersOneToFive ==
    (resp.op = "set_score" /\ ValidIndex(resp.idx)) =>
        /\ resp.code = 200 <=> DictGet(resp.arg, "score") \in OneToFive
        /\ resp.code # 200 => resp.code = 400

ScoredCount(sc) == Cardinality({i \in 1..Len(sc) : sc[i] # None_})

\* C8: getStatus().total is len(pairs) and getStatus().scored is the number
\* of scores that are not None, in every state; and scored never decreases.
C8_StatusCounts ==
    /\ [](/\ status(pairs, scores).body.total = PyInt(Len(pairs))
          /\ status(pairs, scores).body.scored = PyInt(ScoredCount(scores))
          /\ resp.op = "status" => resp.body = status(pairs, scores).body)
    /\ [][status(pairs', scores').body.scored.n >= status(pairs, scores).body.scored.n]_vars

\* C8's case: a submission was refused (400) while another index is scored.
C8_Witness ==
    /\ resp.op = "set_score"
    /\ resp.code = 400
    /\ ScoredCount(scores) = 1
    /\ Len(pairs) = 2

Unscored(sc) == {i \in 0..(Len(sc) - 1) : sc[i + 1] = None_}

\* C9: getFirstUnscored() is the smallest index whose score is None, and 0
\* when there is none; answering it changes neither scores nor output.jsonl.
C9_FirstUnscored ==
    /\ [](/\ Unscored(scores) # {} =>
               /\ first_unscored(scores).body.index.n \in Unscored(scores)
               /\ \A j \in Unscored(scores) : first_unscored(scores).body.index.n <= j
          /\ Unscored(scores) = {} => first_unscored(scores).body.index = PyInt(0)
          /\ resp.op = "first_unscored" => resp.body = first_unscored(scores).body)
    /\ [][resp'.op = "first_unscored" => (scores' = scores /\ outFile' = outFile)]_vars

\* C9's case: every record is scored and the answer is the fallback 0.
C9_Witness ==
    /\ resp.op = "first_unscored"
    /\ Len(pairs) = 2
    /\ Unscored(scores) = {}
    /\ resp.body.index = PyInt(0)

\* C11: a submission answered 200 that is sent again at once, same index and
\* same body, is answered 200 again, leaves scores and output.jsonl as the
\* first one left them, and calls flush_output once more all the same.
C11_ResubmissionIsIdempotent ==
    /\ [][(/\ resp.op = "set_score"
           /\ resp.code = 200
           /\ resp'.op = "set_score"
           /\ resp'.idx = resp.idx
           /\ resp'.arg = resp.arg) =>
              /\ resp'.code = 200
              /\ resp'.flushes = 1
              /\ scores' = scores
              /\ outFile' = outFile]_vars
    /\ []((resp.op = "set_score" /\ resp.code = 200) =>
              /\ resp.flushes = 1
              /\ outFile = flush_output(pairs, scores))

\* C11's case: index 1 of two records holds 3 and its file line too, as the
\* response to a submission of 3; sending it again is a step of this state.
C11_Witness ==
    /\ resp.op = "set_score"
    /\ resp.code = 200
    /\ resp.idx = 1
    /\ resp.arg = [score |-> PyInt(3)]
    /\ scores[2] = PyInt(3)
    /\ FileHolds(1, Digits(3))
    /\ ENABLED SetScore(1, [score |-> PyInt(3)])

\* C15: a submission answered 404 or 400 leaves pairs, scores and
\* output.jsonl as they were and calls flush_output not once.
C15_RefusedSubmissionChangesNothing ==
    [][(resp'.op = "set_score" /\ resp'.code \in {400, 404}) =>
          /\ resp'.flushes = 0
          /\ pairs' = pairs
          /\ scores' = scores
          /\ outFile' = outFile]_vars

\* C15's case: 6 was refused for index 0, which holds 2 in memory and on file.
C15_Witness ==
    /\ resp.op = "set_score"
    /\ resp.idx = 0
    /\ resp.arg = [score |-> PyInt(6)]
    /\ resp.code = 400
    /\ scores[1] = PyInt(2)
    /\ FileHolds(0, Digits(2))

\* C16: in every server state, after any requests and restarts, scores is as
\* long as pairs, and pairs is what load_input reads from input.jsonl.
C16_ShapeIsKept ==
    /\ Len(scores) = Len(pairs)
    /\ pairs = load_input(inFile).pairs

\* C16's case: the input has a blank line besides its one record, which was
\* scored, and the process was restarted since.
C16_Witness ==
    /\ inFile = InputFile(1, 1)
    /\ resp.op = "startup"
    /\ scores = <<PyInt(5)>>

ScoreTexts == {NullText} \cup {Digits(k) : k \in 1..5}

\* C17 (as claimed): from an absent output.jsonl on, through any submissions
\* and restarts, every entry of scores and every "score" field of
\* output.jsonl is one of the integers 1..5 or is absent (None, null).
C17_ScoresAreOneToFiveOrAbsent ==
    /\ \A i \in 1..Len(scores) : scores[i] \in OneToFive \cup {None_}
    /\ outFile.exists =>
          \A i \in 1..Len(outFile.lines) :
              /\ outFile.lines[i].kind = "json"
              /\ "score" \in DOMAIN outFile.lines[i].obj
              /\ outFile.lines[i].obj["score"] \in ScoreTexts

\* ----------------------------------------- claims checked under SpecParallel

\* Line i (1-based) of the file is the Output Record of pairs[i] with some score.
IsOutputRecord(line, i) ==
    /\ line.kind = "json"
    /\ DOMAIN line.obj = (DOMAIN pairs[i]) \cup {"score"}
    /\ \A k \in DOMAIN pairs[i] : k # "score" => line.obj[k] = JsonDumps(pairs[i][k])

FileIsComplete ==
    /\ Len(outFile.lines) = Len(pairs)
    /\ \A i \in 1..Len(pairs) : IsOutputRecord(outFile.lines[i], i)

\* C2 (as claimed): at every point, a persist in progress included,
\* output.jsonl is absent or holds one complete sequence of Output Records;
\* a restart after an interruption does not fail, and it recovers every
\* score that was acknowledged and not submitted again since.
C2_PersistIsAllOrNothing ==
    /\ outFile.exists => FileIsComplete
    /\ proc = "running"
    /\ resp.op = "startup" =>
          \A i \in 1..Len(pairs) : acked[i] # None_ => scores[i] = acked[i]

Orders(n) == {f \in [1..n -> 1..n] : \A i, j \in 1..n : f[i] = f[j] => i = j}

RECURSIVE ApplyInOrder(_, _, _, _)
\* sc after the calls order[k], order[k+1], ... ran one after the other.
ApplyInOrder(sc, calls, order, k) ==
    IF k > Len(calls) THEN sc
    ELSE ApplyInOrder([sc EXCEPT ![calls[order[k]].idx + 1] = calls[order[k]].val],
                      calls, order, k + 1)

\* C3 (as claimed): when the set_score calls that ran in parallel have all
\* returned, scores and output.jsonl are what running those calls one after
\* the other, in some order, leaves.
C3_ParallelAsIfSequenced ==
    (Quiescent /\ batch # <<>> /\ resp.op = "set_score") =>
        \E order \in Orders(Len(batch)) :
            /\ scores = ApplyInOrder(base, batch, order, 1)
            /\ outFile = flush_output(pairs, scores)

\* ----------------------------------------- claims checked under SpecDiskFull

\* What a start of the process would read back from output.jsonl.
OnFile == load_existing_output(outFile, [i \in 1..Len(pairs) |-> None_])

\* C18 (as claimed): when flush_output raised during a submission that ran
\* alone, the response is no success, scores is what it was before the call,
\* and output.jsonl holds the scores that memory holds.
C18_FailedPersistLeavesScores ==
    (resp.op = "set_score" /\ resp.code = 500 /\ Quiescent /\ Len(batch) = 1) =>
        /\ resp.body # OkBody
        /\ scores = base
        /\ OnFile.ok
        /\ OnFile.scores = scores

\* ------------------------------------------- claims checked under SpecClient

\* C4 (as claimed): from page load on, at most one render or score call is
\* in flight, and none is whenever BUSY is false.
C4_OneRoundTripAtATime ==
    /\ Len(ops) <= 1
    /\ BUSY = FALSE => ops = <<>>

\* The button the server's current score of record IDX would highlight.
ServerHighlight == IF ValidIndex(IDX) THEN JsActive(scores[IDX + 1]) ELSE 0

\* C5 (as claimed): when a score call has completed and nothing is in
\* flight, the highlighted button is the one of the server's scores[IDX].
C5_HighlightIsServerScore ==
    (last = "score" /\ BUSY = FALSE /\ ops = <<>>) => active = ServerHighlight

\* The steps that are an input of the operator.
InputSteps == {"press", "go", "dropped", "rejected"}

\* C13: an input that arrives while BUSY is true is dropped: it sends no
\* request, leaves IDX alone and leaves nothing behind that could act once
\* the call in flight has finished (all but the history is unchanged).
C13_InputWhileBusyIsDropped ==
    [][(BUSY /\ last' \in InputSteps) =>
          /\ last' = "dropped"
          /\ ops' = ops
          /\ IDX' = IDX
          /\ UNCHANGED inputFrame]_vars

\* C13's case: an input was dropped while the POST of a score call is out.
C13_Witness ==
    /\ last = "dropped"
    /\ BUSY
    /\ boot.pc = "done"
    /\ Len(ops) = 1
    /\ ops[1].kind = "score"
    /\ ops[1].f1.st = "sent"

\* C14: a go(dir) either lands inside [0, TOTAL) or changes nothing; and once
\* the init block has run to its end on a dataset that is not empty,
\* 0 <= IDX < TOTAL in every state of the page.
C14_NavigationStaysInRange ==
    /\ [][last' = "go" => (0 <= IDX' /\ IDX' < TOTAL')]_vars
    /\ [][last' = "rejected" => UNCHANGED inputFrame]_vars
    /\ []((boot.pc = "done" /\ Len(pairs) > 0) => (0 <= IDX /\ IDX < TOTAL))

\* C14's case: the page shows the last of two records and a go was refused.
C14_Witness ==
    /\ last = "rejected"
    /\ boot.pc = "done"
    /\ Len(pairs) = 2
    /\ IDX = 1
    /\ shown = 1

\* C19 (as claimed): a score call that has just sent its POST sent it for the
\* record that the last finished render displayed.
C19_ScoreTargetsShownRecord ==
    last = "press" => ops[Len(ops)].idx = shown

\* ---------------------------------------- claims checked under SpecClientFair

\* C20: when every request is answered or fails, BUSY always becomes false
\* again, after a render and after a score call, failed or not; and BUSY is
\* true only while a call has not finished.
C20_BusyIsReleased ==
    /\ BUSY ~> ~BUSY
    /\ [](BUSY => ops # <<>>)

\* C20's case: a fetch of the first render failed, nothing is displayed, and
\* BUSY is false again.
C20_Witness ==
    /\ last = "failed"
    /\ ~BUSY
    /\ ops = <<>>
    /\ boot.pc = "done"
    /\ Len(pairs) = 1
    /\ shown = -1

\* ---------------------------------------- claims checked under SpecRoundTrip

\* C10: persist followed by resume gives back exactly the scores that were
\* persisted, index by index, for 0, 1 and more records and any scores over
\* {None, 1, ..., 5}.
C10_RoundTrip ==
    call.phase = "resumed" =>
        /\ call.ok
        /\ Len(scores) = Len(call.given)
        /\ \A i \in 1..Len(scores) : scores[i] = call.given[i]

\* C10's case: a round trip of three records, the first and the last unscored.
C10_Witness ==
    /\ call.phase = "resumed"
    /\ call.given = <<None_, PyInt(5), None_>>
    /\ outFile.lines[2].obj["score"] = <<"5">>

\* ------------------------------------------- claims checked under SpecResume

\* C12: a start never fails on an output.jsonl of another length: with no
\* file every score is None; with k lines, scores[i] is line i's score for
\* i < k and None from k on; lines beyond len(pairs) are ignored; and scores
\* is as long as pairs.
C12_ResumeToleratesAnyLength ==
    call.phase = "resumed" =>
        /\ call.ok
        /\ Len(scores) = Len(pairs)
        /\ pairs = [i \in 1..Len(pairs) |-> SamplePair(i)]
        /\ \A i \in 1..Len(scores) :
              scores[i] = IF outFile.exists /\ i <= Len(outFile.lines)
                          THEN call.given[i] ELSE None_

\* C12's case: three records and a file of one line, which holds 5.
C12_Witness ==
    /\ call.phase = "resumed"
    /\ Len(outFile.lines) = 1
    /\ scores = <<PyInt(5), None_, None_>>

====
